---- MODULE Spec2Model ----
(***************************************************************************)
(* Model of socket.io-db-session (src/index.js): the Session engine, the   *)
(* getToken middleware that owns one engine per socket, and the session    *)
(* table behind the shared db connection.                                  *)
(*                                                                         *)
(* Every db.query is asynchronous: the call appends the statement to the   *)
(* connection's queue and returns; the statement is executed, and its node *)
(* callback run, in a later step (DbRespond).  All engines are built from  *)
(* the same options object, hence share options.db and its queue.          *)
(*                                                                         *)
(* Tokens are strings, modelled as sequences: "" is <<>>, the n-th result  *)
(* of uid.sync(24) is <<n>>, and <<0>> is a string no engine generated.    *)
(***************************************************************************)
EXTENDS Integers, Sequences, FiniteSets, TLC

-----------------------------------------------------------------------------
(* Bounds of the model *)

\* number of 1.5 s clock steps taken within one expiration period
MaxSmallTicks == 1

\* number of whole expiration periods the clock may advance
MaxDays == 1

\* number of loadSession, set and clearSession calls made by the sockets' handlers;
\* it also bounds the statements waiting on the connection and the tokens generated
MaxOps == 3

-----------------------------------------------------------------------------
(* Program constants and value domains *)

\* the `expiration` entry of the defaults object, in milliseconds
DefaultExpiration == 86400000

\* the sockets the middleware is bound to, one engine each
Engines == {"A", "B"}

Keys == {"k1", "k2"}
KeySeq == <<"k1", "k2">>
Vals == {"a"}

\* JavaScript's undefined, as the value of an absent property
Undefined == "undefined"

EmptyToken == <<>>
Bogus == <<0>>

\* the values object {} : every property undefined
EmptyValues == [k \in Keys |-> Undefined]

\* what a caller may put under `expiration` in the options it passes
CallerOptions == {[expiration |-> 1000]}

MsgNone == ""
MsgExpired == "Session Expired"
MsgNotFound == "Session Not Found"
MsgTerrible == "Something terrible happened"

-----------------------------------------------------------------------------
VARIABLES
    options,    \* the options object after construction
    given,      \* the options as the caller wrote them (history)
    token,      \* token[e]   : this.token
    values,     \* values[e]  : this.values
    expires,    \* expires[e] : this.expires, seconds
    table,      \* rows of the session table
    savedAt,    \* savedAt[t]: when the last applied save of row t was issued (history)
    queue,      \* statements sent on the connection, not yet executed
    now,        \* Date.now(), milliseconds
    nextUid,    \* index of the next token uid.sync returns
    ops,        \* number of loadSession, set and clearSession calls so far
    ev          \* what the last step did (history)

vars == <<options, given, token, values, expires, table, savedAt, queue, now, nextUid, ops, ev>>

-----------------------------------------------------------------------------
(* Pure helpers *)

\* _.extend(destination, source): source's properties overwrite destination's
Extend(destination, source) ==
    [k \in (DOMAIN destination) \cup (DOMAIN source) |->
        IF k \in DOMAIN source THEN source[k] ELSE destination[k]]

Defaults == [expiration |-> DefaultExpiration]

\* Math.round(x / 1000) for x >= 0: halves round up
RoundSeconds(ms) == (ms + 500) \div 1000

\* _generateExpires
GenerateExpires(opts, t) == RoundSeconds(t + opts.expiration)

\* _isExpired
IsExpired(t, exp) == RoundSeconds(t) > exp

\* variant of Uid: every call yields the same string
Uid_Constant(n) == <<1>>

\* uid.sync(24): the n-th call.  24 random bytes: the result differs from every
\* earlier result and from any string a client made up.
Uid(n) == <<n>>

IsUndefined(x) == x = Undefined

\* JSON.stringify(this.values): the defined properties, as key/value pairs
JSONstringify(v) ==
    LET all == [i \in 1..Len(KeySeq) |-> <<KeySeq[i], v[KeySeq[i]]>>]
        Defined(p) == ~IsUndefined(p[2])
    IN  SelectSeq(all, Defined)

\* JSON.parse(data)
JSONparse(d) ==
    [k \in Keys |->
        IF \E i \in 1..Len(d) : d[i][1] = k
        THEN d[CHOOSE i \in 1..Len(d) : d[i][1] = k][2]
        ELSE Undefined]

\* SELECT * FROM session WHERE sessionId = ?
Select(rows, sessionId) ==
    IF \E r \in rows : r.sessionId = sessionId
    THEN << CHOOSE r \in rows : r.sessionId = sessionId >>
    ELSE << >>

\* variant of Upsert: the update keeps the stored properties the new data lacks
Upsert_Merge(rows, p) ==
    IF \E r \in rows : r.sessionId = p[1]
    THEN LET old == JSONparse((CHOOSE r \in rows : r.sessionId = p[1]).data)
             new == JSONparse(p[5])
             merged == [k \in Keys |-> IF IsUndefined(new[k]) THEN old[k] ELSE new[k]]
         IN  {r \in rows : r.sessionId # p[1]}
                \cup {[sessionId |-> p[1], expires |-> p[4], data |-> JSONstringify(merged)]}
    ELSE rows \cup {[sessionId |-> p[1], expires |-> p[2], data |-> p[3]]}

\* variant of Upsert: INSERT without the ON DUPLICATE KEY UPDATE part taking effect
Upsert_InsertOnly(rows, p) ==
    IF \E r \in rows : r.sessionId = p[1]
    THEN rows
    ELSE rows \cup {[sessionId |-> p[1], expires |-> p[2], data |-> p[3]]}

\* INSERT ... VALUES (?, ?, ?) ON DUPLICATE KEY UPDATE expires = ?, data = ?
Upsert(rows, p) ==
    IF \E r \in rows : r.sessionId = p[1]
    THEN {r \in rows : r.sessionId # p[1]}
            \cup {[sessionId |-> p[1], expires |-> p[4], data |-> p[5]]}
    ELSE rows \cup {[sessionId |-> p[1], expires |-> p[2], data |-> p[3]]}

\* variant of SaveSession: the test of the token left out
SaveSession_NoGuard(opts, tok, vals, t) ==
    LET sessionData == JSONstringify(vals)
        exp == GenerateExpires(opts, t)
        params == <<tok, exp, sessionData, exp, sessionData>>
    IN  << [kind |-> "upsert", e |-> "", params |-> params, at |-> t] >>

\* variant of SaveSession: the test of the token inverted
SaveSession_GuardInverted(opts, tok, vals, t) ==
    LET sessionData == JSONstringify(vals)
        exp == GenerateExpires(opts, t)
        params == <<tok, exp, sessionData, exp, sessionData>>
    IN  IF tok = EmptyToken
        THEN << [kind |-> "upsert", e |-> "", params |-> params, at |-> t] >>
        ELSE << >>

\* the statements _saveSession sends: one upsert, or none when the token is "";
\* `at` notes when it was sent (history, not part of the statement)
SaveSession(opts, tok, vals, t) ==
    LET sessionData == JSONstringify(vals)
        exp == GenerateExpires(opts, t)
        params == <<tok, exp, sessionData, exp, sessionData>>
    IN  IF tok # EmptyToken
        THEN << [kind |-> "upsert", e |-> "", params |-> params, at |-> t] >>
        ELSE << >>

\* the statement _loadSession sends
LoadQuery(e, tok) == [kind |-> "select", e |-> e, params |-> <<tok>>, at |-> 0]

\* which branch the callback of _loadSession takes
LookupOutcome(defined, results, t) ==
    IF defined /\ Len(results) > 0
    THEN (IF IsExpired(t, results[1].expires) THEN "expired" ELSE "found")
    ELSE IF defined /\ Len(results) = 0
    THEN "notfound"
    ELSE "failed"

\* variant of LookupMessage: no message in the failure branch
LookupMessage_Silent(outcome) ==
    CASE outcome = "expired" -> MsgExpired
      [] outcome = "notfound" -> MsgNotFound
      [] OTHER -> MsgNone

\* `message` at the end of the callback
LookupMessage(outcome) ==
    CASE outcome = "found" -> MsgNone
      [] outcome = "expired" -> MsgExpired
      [] outcome = "notfound" -> MsgNotFound
      [] OTHER -> MsgTerrible

\* variant of GenerateNew: a row that is found is saved again as well
GenerateNew_AlsoFound(outcome) == outcome \in {"found", "expired", "notfound"}

\* variant of GenerateNew: generateNew left false in the not-found branch
GenerateNew_OnlyExpired(outcome) == outcome = "expired"

\* `generateNew` at the end of the branches
GenerateNew(outcome) == outcome \in {"expired", "notfound"}

\* variant of TokenAfterLookup: the token is not cleared on failure
TokenAfterLookup_Kept(outcome, tok) == tok

\* this.token after the branches: cleared when the lookup failed
TokenAfterLookup(outcome, tok) == IF outcome = "failed" THEN EmptyToken ELSE tok

\* variant of GetResult: the property is returned as it is
GetResult_Raw(vals, k) == vals[k]

\* the value Session.prototype.get(key) returns
GetResult(vals, k) == IF IsUndefined(vals[k]) THEN "" ELSE vals[k]

\* tokens a client can send with getToken: "", a made-up one, or one it was given
Presentable == {EmptyToken, Bogus} \cup {Uid(n) : n \in 1..(nextUid - 1)}

\* the history record of a step that did nothing observable
NoEv ==
    [op |-> "init", e |-> "", tok |-> EmptyToken, key |-> "", val |-> "",
     outcome |-> "", cb |-> << >>, issued |-> << >>, done |-> << >>, ok |-> TRUE]

\* savedAt after a successful upsert of statement q
Stamp(f, q) ==
    [s \in (DOMAIN f) \cup {q.params[1]} |-> IF s = q.params[1] THEN q.at ELSE f[s]]

-----------------------------------------------------------------------------
Init ==
    /\ given \in CallerOptions
    /\ options = Extend(given, Defaults)
    /\ token = [e \in Engines |-> EmptyToken]
    /\ values = [e \in Engines |-> EmptyValues]
    /\ now = 0
    /\ expires = [e \in Engines |-> GenerateExpires(options, 0)]
    /\ table = {}
    /\ savedAt = << >>
    /\ queue = << >>
    /\ nextUid = 1
    /\ ops = 0
    /\ ev = NoEv

-----------------------------------------------------------------------------
(* Session.prototype.loadSession(token, callback) *)
LoadSession(e, tok) ==
    /\ ops < MaxOps
    /\ ops' = ops + 1
    /\ IF IsUndefined(tok) /\ tok = EmptyToken
       THEN /\ token' = [token EXCEPT ![e] = Uid(nextUid)]
            /\ nextUid' = nextUid + 1
            /\ queue' = queue \o SaveSession(options, Uid(nextUid), values[e], now)
            /\ ev' = [NoEv EXCEPT !.op = "load", !.e = e, !.tok = tok,
                        !.outcome = "new",
                        !.cb = << <<tok, MsgNone>> >>,
                        !.issued = SaveSession(options, Uid(nextUid), values[e], now)]
       ELSE /\ token' = [token EXCEPT ![e] = tok]
            /\ queue' = Append(queue, LoadQuery(e, tok))
            /\ nextUid' = nextUid
            /\ ev' = [NoEv EXCEPT !.op = "load", !.e = e, !.tok = tok,
                        !.outcome = "lookup"]
    /\ UNCHANGED <<options, given, values, expires, table, savedAt, now>>

\* variant of Set: the values object is one object shared by the engines
Set_Shared(e, k, v) ==
    /\ ops < MaxOps
    /\ ops' = ops + 1
    /\ values' = [o \in Engines |-> [values[o] EXCEPT ![k] = v]]
    /\ queue' = queue \o SaveSession(options, token[e], values'[e], now)
    /\ ev' = [NoEv EXCEPT !.op = "set", !.e = e, !.key = k, !.val = v,
                !.tok = token[e],
                !.issued = SaveSession(options, token[e], values'[e], now)]
    /\ UNCHANGED <<options, given, token, expires, table, savedAt, now, nextUid>>

(* Session.prototype.set(key, value) *)
Set(e, k, v) ==
    /\ ops < MaxOps
    /\ ops' = ops + 1
    /\ values' = [values EXCEPT ![e][k] = v]
    /\ queue' = queue \o SaveSession(options, token[e], values'[e], now)
    /\ ev' = [NoEv EXCEPT !.op = "set", !.e = e, !.key = k, !.val = v,
                !.tok = token[e],
                !.issued = SaveSession(options, token[e], values'[e], now)]
    /\ UNCHANGED <<options, given, token, expires, table, savedAt, now, nextUid>>

(* Session.prototype.get(key) *)
Get(e, k) ==
    /\ ev' = [NoEv EXCEPT !.op = "get", !.e = e, !.key = k,
                !.val = GetResult(values[e], k), !.tok = token[e]]
    /\ UNCHANGED <<options, given, token, values, expires, table, savedAt,
                   queue, now, nextUid, ops>>

(* Session.prototype.clearSession() *)
ClearSession(e) ==
    /\ ops < MaxOps
    /\ ops' = ops + 1
    /\ values' = [values EXCEPT ![e] = EmptyValues]
    /\ queue' = queue \o SaveSession(options, token[e], values'[e], now)
    /\ ev' = [NoEv EXCEPT !.op = "clear", !.e = e, !.tok = token[e],
                !.issued = SaveSession(options, token[e], values'[e], now)]
    /\ UNCHANGED <<options, given, token, expires, table, savedAt, now, nextUid>>

-----------------------------------------------------------------------------
(* The connection executes its oldest statement and node runs its callback *)

\* variant of SaveDone: a failed upsert is sent again
SaveDone_Retry(q, ok) ==
    /\ table' = IF ok THEN Upsert(table, q.params) ELSE table
    /\ savedAt' = IF ok THEN Stamp(savedAt, q) ELSE savedAt
    /\ ev' = [NoEv EXCEPT !.op = "write", !.tok = q.params[1],
                !.ok = ok,
                !.issued = IF ok THEN << >> ELSE <<q>>,
                !.done = <<q>>]
    /\ queue' = IF ok THEN Tail(queue) ELSE Append(Tail(queue), q)
    /\ UNCHANGED <<options, given, token, values, expires, now, nextUid, ops>>

\* the callback _saveSession passes to db.query: it only logs
SaveDone(q, ok) ==
    /\ table' = IF ok THEN Upsert(table, q.params) ELSE table
    /\ savedAt' = IF ok THEN Stamp(savedAt, q) ELSE savedAt
    /\ ev' = [NoEv EXCEPT !.op = "write", !.tok = q.params[1],
                !.ok = ok,
                !.done = <<q>>]
    /\ queue' = Tail(queue)
    /\ UNCHANGED <<options, given, token, values, expires, now, nextUid, ops>>

\* the callback _loadSession passes to db.query
LoadDone(q, ok) ==
    LET e == q.e
        results == IF ok THEN Select(table, q.params[1]) ELSE << >>
        outcome == LookupOutcome(ok, results, now)
        hydrate == ok /\ Len(results) > 0
        values1 == IF hydrate THEN JSONparse(results[1].data) ELSE values[e]
        expires1 == IF hydrate THEN results[1].expires ELSE expires[e]
        message == LookupMessage(outcome)
        generateNew == GenerateNew(outcome)
        token1 == TokenAfterLookup(outcome, token[e])
        token2 == IF generateNew THEN Uid(nextUid) ELSE token1
        expires2 == IF generateNew THEN GenerateExpires(options, now) ELSE expires1
        saved == IF generateNew
                 THEN SaveSession(options, token2, values1, now)
                 ELSE << >>
    IN  /\ values' = [values EXCEPT ![e] = values1]
        /\ expires' = [expires EXCEPT ![e] = expires2]
        /\ token' = [token EXCEPT ![e] = token2]
        /\ nextUid' = IF generateNew THEN nextUid + 1 ELSE nextUid
        /\ queue' = Tail(queue) \o saved
        /\ ev' = [NoEv EXCEPT !.op = "loaded", !.e = e, !.tok = q.params[1],
                    !.outcome = outcome,
                    !.cb = << <<token2, message>> >>,
                    !.issued = saved,
                    !.ok = ok,
                    !.done = <<q>>]
        /\ UNCHANGED <<options, given, table, savedAt, now, ops>>

DbRespond(ok) ==
    /\ queue # << >>
    /\ IF Head(queue).kind = "upsert"
       THEN SaveDone(Head(queue), ok)
       ELSE LoadDone(Head(queue), ok)

-----------------------------------------------------------------------------
(* Date.now() advances *)
TickSteps == {1500, DefaultExpiration}

Tick(d) ==
    /\ now + d <= MaxDays * DefaultExpiration + MaxSmallTicks * 1500
    /\ d < DefaultExpiration => (now % DefaultExpiration) + d <= MaxSmallTicks * 1500
    /\ now' = now + d
    /\ ev' = [NoEv EXCEPT !.op = "tick"]
    /\ UNCHANGED <<options, given, token, values, expires, table, savedAt,
                   queue, nextUid, ops>>

Next ==
    \/ \E e \in Engines, tok \in Presentable : LoadSession(e, tok)
    \/ \E e \in Engines, k \in Keys, v \in Vals : Set(e, k, v)
    \/ \E e \in Engines, k \in Keys : Get(e, k)
    \/ \E e \in Engines : ClearSession(e)
    \/ \E ok \in BOOLEAN : DbRespond(ok)
    \/ \E d \in TickSteps : Tick(d)

Spec == Init /\ [][Next]_vars

-----------------------------------------------------------------------------
(* Two connections whose engines have both loaded the same stored session:   *)
(* the state after one engine was given Uid(1) and saved it, and the other   *)
(* called loadSession(Uid(1)) and found the row.                             *)
InitShared ==
    /\ given \in CallerOptions
    /\ options = Extend(given, Defaults)
    /\ token = [e \in Engines |-> Uid(1)]
    /\ values = [e \in Engines |-> EmptyValues]
    /\ now = 0
    /\ expires = [e \in Engines |-> GenerateExpires(options, 0)]
    /\ table = Upsert({}, SaveSession(options, Uid(1), EmptyValues, 0)[1].params)
    /\ savedAt = Stamp(<< >>, SaveSession(options, Uid(1), EmptyValues, 0)[1])
    /\ queue = << >>
    /\ nextUid = 2
    /\ ops = 0
    /\ ev = NoEv

SpecShared == InitShared /\ [][Next]_vars

-----------------------------------------------------------------------------
(* Properties.  ev describes the step that led to the current state:        *)
(* ev.op = "loaded" is a state right after the callback of _loadSession ran *)
(* for engine ev.e, ev.tok being the token the lookup was made for, ev.ok   *)
(* whether the store answered, ev.cb the calls of the caller's callback and *)
(* ev.issued the statements the step sent.                                  *)

\* the row of the table keyed tok, as a sequence of zero or one rows
RowOf(tok) == Select(table, tok)

\* a lookup for ev.tok has just completed without a storage failure
Looked == ev.op = "loaded" /\ ev.ok

\* the lookup for ev.tok has just failed
LookupFailed == ev.op = "loaded" /\ ~ev.ok

\* the lookup that has just completed met a row that is not expired
MetLiveRow ==
    /\ Looked
    /\ RowOf(ev.tok) # << >>
    /\ RoundSeconds(now) <= RowOf(ev.tok)[1].expires

\* the lookup that has just completed met a row that is expired
MetStaleRow ==
    /\ Looked
    /\ RowOf(ev.tok) # << >>
    /\ RoundSeconds(now) > RowOf(ev.tok)[1].expires

\* the lookup that has just completed met no row
MetNoRow == Looked /\ RowOf(ev.tok) = << >>

\* tok is held by no other engine than e and keys no row: it is new
IsNewToken(tok, e) ==
    /\ tok = Uid(nextUid - 1)
    /\ tok # EmptyToken
    /\ \A o \in Engines \ {e} : token[o] # tok
    /\ RowOf(tok) = << >>

\* the step sent exactly one statement, an upsert keyed tok, now last in the queue
IssuedUpsertFor(tok) ==
    /\ Len(ev.issued) = 1
    /\ ev.issued[1].kind = "upsert"
    /\ ev.issued[1].params[1] = tok
    /\ queue # << >>
    /\ queue[Len(queue)] = ev.issued[1]

\* C1: when the first call made on the engines is loadSession(""), and the
\* store answers, the callback is invoked exactly once with (T1, ""), T1 being
\* a new non-empty token that is the engine's token, and an upsert of a row
\* keyed T1 with empty values is issued.
C1_FreshLoadEmpty ==
    (Looked /\ ops = 1 /\ ev.tok = EmptyToken) =>
        /\ ev.cb = << <<token[ev.e], MsgNone>> >>
        /\ IsNewToken(token[ev.e], ev.e)
        /\ IssuedUpsertFor(token[ev.e])
        /\ ev.issued[1].params[3] = JSONstringify(EmptyValues)

\* C2: when the lookup of loadSession(T) meets a row of T that is not
\* expired, the callback is invoked with (T, ""), and afterwards the engine's
\* values are the row's data and its expires is the row's expires.
C2_LoadFound ==
    MetLiveRow =>
        /\ ev.cb = << <<ev.tok, MsgNone>> >>
        /\ values[ev.e] = JSONparse(RowOf(ev.tok)[1].data)
        /\ expires[ev.e] = RowOf(ev.tok)[1].expires

\* C3: when the lookup of loadSession(T), T non-empty, meets no row, the
\* callback is invoked with (T2, "Session Not Found"), T2 a new token other
\* than T, the engine's token is T2, and an upsert of a row keyed T2 is issued.
C3_LoadMissing ==
    (MetNoRow /\ ev.tok # EmptyToken) =>
        /\ ev.cb = << <<token[ev.e], MsgNotFound>> >>
        /\ token[ev.e] # ev.tok
        /\ IsNewToken(token[ev.e], ev.e)
        /\ IssuedUpsertFor(token[ev.e])

C3_Witness ==
    /\ MetNoRow
    /\ ev.tok = Bogus
    /\ ev.cb = << <<Uid(1), MsgNotFound>> >>
    /\ token[ev.e] = Uid(1)

\* C4: a session whose last save was made at time s and whose lookup
\* completes later than s + t, t the TTL the caller configured, is treated as
\* expired: the callback receives "Session Expired" and a token other than
\* the one presented.
C4_ExpiredAfterConfiguredTTL ==
    (/\ Looked
     /\ ev.tok \in DOMAIN savedAt
     /\ now > savedAt[ev.tok] + given.expiration) =>
        /\ Len(ev.cb) = 1
        /\ ev.cb[1][2] = MsgExpired
        /\ ev.cb[1][1] # ev.tok

\* C5: on the self-healing path of loadSession (row expired, or no row) the
\* upsert issued for the new token carries the empty values mapping and the
\* engine's values are empty afterwards.
C5_ReplacementEmpty ==
    (MetStaleRow \/ MetNoRow) =>
        /\ Len(ev.issued) = 1
        /\ ev.issued[1].params[3] = JSONstringify(EmptyValues)
        /\ values[ev.e] = EmptyValues

\* the value the serialized pairs d hold for key k, "" when they hold none
Stored(d, k) ==
    IF \E i \in 1..Len(d) : d[i][1] = k
    THEN d[CHOOSE i \in 1..Len(d) : d[i][1] = k][2]
    ELSE ""

\* C6: after set(k, v), get(k) on that engine returns v and, the engine
\* having a token, the upsert sent for that token holds v for k; an upsert
\* that is applied leaves the row holding the data sent; and an engine whose
\* lookup meets a row that is not expired returns from get(k), for every k,
\* what the row holds for k.
C6_SetGetReload ==
    /\ ev.op = "set" =>
        /\ GetResult(values[ev.e], ev.key) = ev.val
        /\ ev.tok # EmptyToken =>
            /\ IssuedUpsertFor(ev.tok)
            /\ Stored(ev.issued[1].params[3], ev.key) = ev.val
    /\ (ev.op = "write" /\ ev.ok) =>
        /\ RowOf(ev.tok) # << >>
        /\ RowOf(ev.tok)[1].data = ev.done[1].params[3]
    /\ MetLiveRow =>
        \A k \in Keys :
            GetResult(values[ev.e], k) = Stored(RowOf(ev.tok)[1].data, k)

C6_Witness ==
    /\ MetLiveRow
    /\ ev.e = "B"
    /\ ev.cb = << <<ev.tok, MsgNone>> >>
    /\ token["A"] = ev.tok
    /\ values["A"]["k1"] = "a"
    /\ GetResult(values["B"], "k1") = "a"
    /\ RowOf(ev.tok)[1].data = << <<"k1", "a">> >>

\* C7: get(k) for a key absent from the engine's values returns "", and get
\* changes neither an engine, nor the table, nor the statements sent.
C7_GetAbsent ==
    [][ev'.op = "get" =>
        /\ UNCHANGED <<token, values, expires, table, queue, nextUid>>
        /\ IsUndefined(values[ev'.e][ev'.key]) => ev'.val = ""]_vars

C7_Witness ==
    /\ ev.op = "get"
    /\ IsUndefined(values[ev.e][ev.key])
    /\ ev.val = ""
    /\ token[ev.e] # EmptyToken
    /\ \E k \in Keys : ~IsUndefined(values[ev.e][k])

\* C8: clearSession called twice in a row on an engine that has a token leaves
\* values empty after each call and the token unchanged, and each call sends
\* one upsert for that token, both with the same, empty, data.
C8_ClearTwice ==
    [][(/\ ev.op = "clear"
        /\ ev'.op = "clear"
        /\ ev'.e = ev.e
        /\ ops' = ops + 1
        /\ ev.tok # EmptyToken) =>
            /\ values[ev.e] = EmptyValues
            /\ values'[ev.e] = EmptyValues
            /\ token[ev.e] = ev.tok
            /\ token'[ev.e] = ev.tok
            /\ IssuedUpsertFor(ev.tok)
            /\ Len(ev'.issued) = 1
            /\ queue' = Append(queue, ev'.issued[1])
            /\ ev'.issued[1].kind = "upsert"
            /\ ev'.issued[1].params[1] = ev.tok
            /\ ev.issued[1].params[3] = << >>
            /\ ev.issued[1].params[5] = << >>
            /\ ev'.issued[1].params[3] = << >>
            /\ ev'.issued[1].params[5] = << >>]_vars

C8_Witness ==
    /\ ev.op = "clear"
    /\ ops = 3
    /\ ev.tok # EmptyToken
    /\ token[ev.e] = ev.tok
    /\ values[ev.e] = EmptyValues
    /\ RowOf(ev.tok) # << >>
    /\ Len(queue) = 2
    /\ \A i \in 1..2 :
        /\ queue[i].kind = "upsert"
        /\ queue[i].params[1] = ev.tok
        /\ queue[i].params[3] = << >>

\* C9: when the lookup of loadSession fails, the engine's token becomes "",
\* the callback is invoked once with "" and a non-empty message, no token is
\* generated and no statement is sent.
C9_LookupFailure ==
    [][(ev'.op = "loaded" /\ ~ev'.ok) =>
        /\ token'[ev'.e] = EmptyToken
        /\ Len(ev'.cb) = 1
        /\ ev'.cb[1][1] = EmptyToken
        /\ ev'.cb[1][2] # ""
        /\ nextUid' = nextUid
        /\ ev'.issued = << >>
        /\ queue' = Tail(queue)]_vars

C9_Witness ==
    /\ LookupFailed
    /\ ev.tok = Uid(1)
    /\ RowOf(ev.tok) # << >>
    /\ token[ev.e] = EmptyToken
    /\ ev.cb = << <<EmptyToken, MsgTerrible>> >>

\* C10 as first stated: every loadSession ends with the callback receiving a
\* non-empty token, whatever failure occurred.
C10_AlwaysToken ==
    ev.op = "loaded" => (Len(ev.cb) = 1 /\ ev.cb[1][1] # EmptyToken)

\* C10: a loadSession whose lookup meets no row or an expired row ends with
\* the callback receiving, once, a non-empty token (the engine's) and a
\* non-empty message; a loadSession whose lookup fails ends with the callback
\* receiving, once, the empty token and a non-empty message.
C10_TokenUnlessLookupFails ==
    /\ (MetNoRow \/ MetStaleRow) =>
        /\ Len(ev.cb) = 1
        /\ ev.cb[1][1] # EmptyToken
        /\ ev.cb[1][1] = token[ev.e]
        /\ ev.cb[1][2] # ""
    /\ LookupFailed =>
        /\ Len(ev.cb) = 1
        /\ ev.cb[1][1] = EmptyToken
        /\ ev.cb[1][2] # ""

C10_Witness ==
    /\ MetStaleRow
    /\ ev.cb = << <<token[ev.e], MsgExpired>> >>
    /\ token[ev.e] \notin {EmptyToken, ev.tok}

\* the upserts waiting on the connection
PendingUpserts == {i \in 1..Len(queue) : queue[i].kind = "upsert"}

\* C11: set and clearSession called while the engine's token is "" send no
\* statement, no upsert keyed "" ever waits on the connection, and the table
\* never holds a row keyed "".
C11_NoSaveWithoutToken ==
    /\ (ev.op \in {"set", "clear"} /\ ev.tok = EmptyToken) => ev.issued = << >>
    /\ \A i \in PendingUpserts : queue[i].params[1] # EmptyToken
    /\ RowOf(EmptyToken) = << >>

C11_Witness ==
    /\ ev.op = "set"
    /\ ev.tok = EmptyToken
    /\ token[ev.e] = EmptyToken
    /\ values[ev.e][ev.key] = ev.val
    /\ ops = 2
    /\ table = {}
    /\ queue = << >>

\* C12: every upsert sent carries, as its insert and as its update value,
\* expires = (the time it was sent) + (the TTL the caller configured), in
\* seconds; so the expires of a row is the time its last applied save was
\* sent plus that TTL.
C12_SlidingExpiration ==
    /\ \A i \in PendingUpserts :
        /\ queue[i].params[2] = RoundSeconds(queue[i].at + given.expiration)
        /\ queue[i].params[4] = queue[i].params[2]
    /\ \A r \in table :
        r.expires = RoundSeconds(savedAt[r.sessionId] + given.expiration)

\* C13: the loadSession callback fires only after the lookup has completed
\* and, when the lookup met no row or an expired one, after the repair write
\* has completed: when the callback receives the new token, the row keyed by
\* that token is in the table and no upsert for it still waits.
C13_CallbackAfterRepair ==
    /\ ev.cb # << >> => ev.op = "loaded"
    /\ (MetNoRow \/ MetStaleRow) =>
        /\ Len(ev.cb) = 1
        /\ RowOf(ev.cb[1][1]) # << >>
        /\ \A i \in PendingUpserts : queue[i].params[1] # ev.cb[1][1]

\* C14: when an upsert fails, every engine's token, values and expires stay
\* as the mutation left them, the table is unchanged, no callback of a caller
\* is invoked, and no statement is sent because of the failure: the failed
\* statement leaves the connection and nothing takes its place.
C14_SaveFailureSilent ==
    [][(ev'.op = "write" /\ ~ev'.ok) =>
        /\ UNCHANGED <<token, values, expires, table, savedAt, nextUid>>
        /\ ev'.cb = << >>
        /\ ev'.issued = << >>
        /\ queue' = Tail(queue)]_vars

C14_Witness ==
    /\ ev.op = "write"
    /\ ~ev.ok
    /\ ev.tok # EmptyToken
    /\ ev.done[1].params[3] = << <<"k1", "a">> >>
    /\ token["A"] = ev.tok
    /\ values["A"]["k1"] = "a"
    /\ RowOf(ev.tok) # << >>
    /\ RowOf(ev.tok)[1].data = << >>
    /\ queue = << >>

\* the token was missing from the table, or expired, when its lookup answered
Healed(h) == h.op = "loaded" /\ h.ok /\ h.outcome \in {"notfound", "expired"}

\* C15: two engines have a lookup of the same token in flight and the token
\* keys no row, or an expired one.  When the two lookups are answered one
\* after the other, both decide the same (not found, or expired), each engine
\* ends with the token its callback received, those two tokens differ from
\* each other and from the token presented, each engine has sent one upsert
\* keyed by its own token, and the second answer leaves the first engine as
\* it was.
C15_ConcurrentHeal ==
    [][(/\ Healed(ev)
        /\ ev'.op = "loaded"
        /\ ev'.ok
        /\ ev'.e # ev.e
        /\ ev'.tok = ev.tok) =>
            /\ ev'.outcome = ev.outcome
            /\ ev.cb = << <<token[ev.e], LookupMessage(ev.outcome)>> >>
            /\ ev'.cb = << <<token'[ev'.e], LookupMessage(ev.outcome)>> >>
            /\ token'[ev.e] = token[ev.e]
            /\ values'[ev.e] = values[ev.e]
            /\ expires'[ev.e] = expires[ev.e]
            /\ token'[ev.e] \notin {EmptyToken, ev.tok, token'[ev'.e]}
            /\ token'[ev'.e] \notin {EmptyToken, ev.tok}
            /\ IssuedUpsertFor(token[ev.e])
            /\ Len(ev'.issued) = 1
            /\ ev'.issued[1].kind = "upsert"
            /\ ev'.issued[1].params[1] = token'[ev'.e]
            /\ queue' = Append(Tail(queue), ev'.issued[1])
            /\ \E i \in 1..Len(queue') : queue'[i] = ev.issued[1]]_vars

C15_Witness ==
    /\ Healed(ev)
    /\ ev.e = "B"
    /\ ev.tok = Bogus
    /\ ops = 2
    /\ token = [A |-> Uid(1), B |-> Uid(2)]
    /\ ev.cb = << <<Uid(2), MsgNotFound>> >>
    /\ Len(queue) = 2
    /\ queue[1].kind = "upsert"
    /\ queue[1].params[1] = Uid(1)
    /\ queue[2] = ev.issued[1]
    /\ queue[2].params[1] = Uid(2)
    /\ table = {}

\* the statement the step h sent is an upsert of the whole of vals
Snapshot(h, vals) ==
    /\ h.issued[1].kind = "upsert"
    /\ h.issued[1].params[3] = JSONstringify(vals)
    /\ h.issued[1].params[5] = JSONstringify(vals)

\* C16: every upsert sent holds all of the values of the engine that sends
\* it, and nothing else; an upsert that is applied leaves the row of its
\* token with exactly the statement's data, whatever the row held before,
\* and leaves the other rows alone; a lookup that meets a row sets the
\* engine's values to exactly the row's data.  So with two engines on one
\* token the row holds the values of the engine whose upsert was applied last.
C16_SnapshotNoMerge ==
    [][/\ (ev'.op \in {"set", "clear", "loaded"} /\ ev'.issued # << >>) =>
            Snapshot(ev', values'[ev'.e])
       /\ (ev'.op = "write" /\ ev'.ok) =>
            /\ Select(table', ev'.tok) # << >>
            /\ Select(table', ev'.tok)[1].data = ev'.done[1].params[5]
            /\ ev'.done[1].params[5] = ev'.done[1].params[3]
            /\ \A r \in table' : r.sessionId # ev'.tok => r \in table
            /\ \A r \in table : r.sessionId # ev'.tok => r \in table'
       /\ (ev'.op = "loaded" /\ ev'.ok /\ Select(table, ev'.tok) # << >>) =>
            values'[ev'.e] = JSONparse(Select(table, ev'.tok)[1].data)]_vars

C16_Witness ==
    /\ ev.op = "write"
    /\ ev.ok
    /\ ev.tok = Uid(1)
    /\ token = [A |-> Uid(1), B |-> Uid(1)]
    /\ values["A"] = [k1 |-> "a", k2 |-> Undefined]
    /\ values["B"] = [k1 |-> Undefined, k2 |-> "a"]
    /\ ops = 2
    /\ queue = << >>
    /\ savedAt[Uid(1)] = 1500
    /\ ev.done[1].at = 1500
    /\ RowOf(Uid(1))[1].data = << <<"k2", "a">> >>

\* C17: set and clearSession on one engine leave the token, expires and
\* values of every other engine unchanged, also when they hold the same
\* token; the values of an engine change only in its own set and
\* clearSession and when one of its own lookups is answered, and a lookup
\* changes them only to the data of the row it met.  So get(k) on B returns
\* the v that A set only after a loadSession of B has completed.
C17_NoSharedMemory ==
    [][/\ ev'.op \in {"set", "clear"} =>
            \A o \in Engines \ {ev'.e} :
                /\ token'[o] = token[o]
                /\ expires'[o] = expires[o]
                /\ values'[o] = values[o]
       /\ \A o \in Engines :
            values'[o] # values[o] =>
                /\ ev'.op \in {"set", "clear", "loaded"}
                /\ ev'.e = o
                /\ ev'.op = "loaded" =>
                    /\ ev'.ok
                    /\ Select(table, ev'.tok) # << >>
                    /\ values'[o] = JSONparse(Select(table, ev'.tok)[1].data)
       /\ ev'.op = "get" => ev'.val = GetResult(values[ev'.e], ev'.key)]_vars

C17_Witness ==
    /\ ev.op = "get"
    /\ ev.e = "B"
    /\ ev.key = "k1"
    /\ ev.val = ""
    /\ token = [A |-> Uid(1), B |-> Uid(1)]
    /\ values["A"]["k1"] = "a"
    /\ IsUndefined(values["B"]["k1"])
    /\ expires["B"] = GenerateExpires(options, 0)
    /\ RowOf(Uid(1))[1].data = << <<"k1", "a">> >>
    /\ queue = << >>

\* the tokens uid.sync has returned so far
Generated == {Uid(n) : n \in 1..(nextUid - 1)}

\* C18: every upsert sent and every row of the table is keyed by a token
\* that an engine generated; the token a caller presented to loadSession
\* keys none unless it is such a token, also when set or clearSession is
\* called while the lookup is in flight.
C18_OnlyGeneratedKeys ==
    /\ \A i \in PendingUpserts : queue[i].params[1] \in Generated
    /\ \A r \in table : r.sessionId \in Generated

\* C19: when a lookup is answered with a row that is not expired, the token
\* the callback receives, and the engine then holds, is the sessionId of the
\* row whose data went into the engine's values, also when the engine's
\* loadSession was called again with another token in the meantime.
C19_TokenOfHydratedRow ==
    MetLiveRow =>
        /\ values[ev.e] = JSONparse(RowOf(ev.tok)[1].data)
        /\ Len(ev.cb) = 1
        /\ ev.cb[1][1] = RowOf(ev.tok)[1].sessionId
        /\ token[ev.e] = RowOf(ev.tok)[1].sessionId

\* C20: the answer of a lookup that meets a row which is not expired sends no
\* statement, generates no token and leaves the table as it is, as does the
\* call of loadSession itself, which sends the select only; upserts are sent
\* only by set, by clearSession and by a lookup that met no row or an expired
\* one.  So loading alone never moves a row's expires.
C20_LoadFoundReadOnly ==
    [][/\ (/\ ev'.op = "loaded"
           /\ ev'.ok
           /\ Select(table, ev'.tok) # << >>
           /\ ~IsExpired(now, Select(table, ev'.tok)[1].expires)) =>
                /\ ev'.issued = << >>
                /\ queue' = Tail(queue)
                /\ nextUid' = nextUid
                /\ UNCHANGED <<table, savedAt>>
       /\ ev'.op = "load" =>
                /\ queue' = Append(queue, LoadQuery(ev'.e, ev'.tok))
                /\ UNCHANGED <<table, savedAt>>
       /\ ev'.issued # << >> =>
                \/ ev'.op \in {"set", "clear"}
                \/ ev'.op = "loaded" /\ ev'.outcome \in {"notfound", "expired"}]_vars

C20_Witness ==
    /\ MetLiveRow
    /\ ev.tok = Uid(1)
    /\ now = 1500
    /\ savedAt[Uid(1)] = 0
    /\ RowOf(Uid(1))[1].expires = GenerateExpires(options, 0)
    /\ expires[ev.e] = GenerateExpires(options, 0)
    /\ ev.issued = << >>
    /\ queue = << >>
    /\ ops = 2

====
